---- MODULE Spec2Model ----
(***************************************************************************)
(* Role assignment views of infinitystone (infinitystone/views/rbac.py).   *)
(*                                                                         *)
(* The state is the luxon_user_role table, the last request handled with   *)
(* its response, and per database connection the Create that has passed   *)
(* its guards and not inserted yet.  Every SQL value is a tuple of         *)
(* strings: identifiers are one-token tuples, domain names are tuples of   *)
(* characters (so that str.lower() can be computed), and SQL NULL /        *)
(* Python None is NULL.                                                    *)
(* The creation_time column is written by add_user_role and never read by  *)
(* this module; it is left out of the rows.                                *)
(***************************************************************************)
EXTENDS Integers, Sequences, FiniteSets, TLC

VARIABLES luxon_user_role, last, conn

vars == <<luxon_user_role, last, conn>>

(***************************************************************************)
(* Values                                                                  *)
(***************************************************************************)
NULL == <<"NULL">>

\* g.current_request.token.user_id of the default Root user
ROOT_USER_ID == <<"00000000-0000-0000-0000-000000000000">>

\* the all-zero role identifier
GLOBAL_ADMIN_ROLE_ID == <<"00000000-0000-0000-0000-000000000000">>

u1 == <<"u1">>
u2 == <<"u2">>
t1 == <<"t1">>
r_admin == <<"r-admin">>
r_user == <<"r-user">>

none == <<"n", "o", "n", "e">>
d_None == <<"N", "o", "n", "e">>
d_x == <<"x">>

\* every letter casing of the text "none"
NoneCasings ==
    {<<a, b, c, d>> : a \in {"n", "N"}, b \in {"o", "O"}, c \in {"n", "N"}, d \in {"e", "E"}}

\* str.lower() on one character
lower_char(c) ==
    CASE c = "N" -> "n"
      [] c = "O" -> "o"
      [] c = "E" -> "e"
      [] c = "X" -> "x"
      [] OTHER -> c

\* str.lower()
lower(s) == [i \in 1..Len(s) |-> lower_char(s[i])]

(***************************************************************************)
(* Tables this module reads and never writes                               *)
(***************************************************************************)
luxon_role ==
    {[id |-> r_admin, name |-> "Administrator"],
     [id |-> r_user, name |-> "User"]}

\* u1 has a record in the global domain and one in domain "x";
\* u2 has one record, in the global domain under tenant t1.
luxon_user ==
    {[id |-> u1, domain |-> NULL, tenant_id |-> NULL],
     [id |-> u1, domain |-> d_x, tenant_id |-> NULL],
     [id |-> u2, domain |-> NULL, tenant_id |-> t1]}

(***************************************************************************)
(* Request inputs                                                          *)
(***************************************************************************)
Requesters == {ROOT_USER_ID, u1, u2}
UserIds == {u1, u2}
RoleIds == {r_admin, GLOBAL_ADMIN_ROLE_ID}
DomainTexts == {none, d_None, d_x}
TenantIds == {t1}

\* the <<domain, tenant_id>> a route can bind: /{id}/{role},
\* /{id}/{role}/{domain} and /{id}/{role}/{domain}/{tenant_id}
RouteArgs ==
    {<<NULL, NULL>>}
        \cup {<<d, NULL>> : d \in DomainTexts}
        \cup {<<d, t>> : d \in DomainTexts, t \in TenantIds}

\* the <<X-Domain, X-Tenant-Id>> headers of a request, NULL for an absent one
HeaderArgs == (DomainTexts \cup {NULL}) \X (TenantIds \cup {NULL})

(***************************************************************************)
(* infinitystone.utils.api.parse_sql_where: the conjunction over the keys  *)
(* of `where`, "k IS NULL" for a None value and "k=?" otherwise, as a      *)
(* predicate on a row.                                                     *)
(***************************************************************************)
parse_sql_where(where, row) ==
    \A k \in DOMAIN where :
        IF where[k] = NULL THEN row[k] = NULL ELSE row[k] = where[k]

\* uuid4(): an identifier no row of the table has.  Rows are told apart by
\* (id, user_id, role_id, domain, tenant_id); the new row takes the least
\* number that no row with its user, role, domain and tenant carries.
uuid4(tbl, id, role, domain, tenant_id) ==
    LET same == {r \in tbl : /\ r.user_id = id
                             /\ r.role_id = role
                             /\ r.domain = domain
                             /\ r.tenant_id = tenant_id}
    IN  CHOOSE n \in 1..(Cardinality(same) + 1) : \A r \in same : r.id # n

\* check_unique comparing a None domain or tenant with "=": NULL = NULL is
\* not true in SQL, so a row with a NULL column is never found
check_unique_null_unequal(tbl, id, role, domain, tenant_id) ==
    LET cur == {r \in tbl : /\ r.user_id = id
                            /\ r.role_id = role
                            /\ domain # NULL /\ r.domain = domain
                            /\ tenant_id # NULL /\ r.tenant_id = tenant_id}
    IN  IF cur # {} THEN "ValidationError" ELSE ""

\* check_unique filtering on user, role and tenant only
check_unique_no_domain(tbl, id, role, domain, tenant_id) ==
    LET cur == {r \in tbl : /\ r.user_id = id
                            /\ r.role_id = role
                            /\ r.tenant_id = tenant_id}
    IN  IF cur # {} THEN "ValidationError" ELSE ""

(***************************************************************************)
(* check_unique: the exception it raises, "" when it returns               *)
(***************************************************************************)
check_unique(tbl, id, role, domain, tenant_id) ==
    LET where == [domain |-> domain, tenant_id |-> tenant_id]
        cur == {r \in tbl : /\ r.user_id = id
                            /\ r.role_id = role
                            /\ parse_sql_where(where, r)}
    IN  IF cur # {} THEN "ValidationError" ELSE ""

\* check_context_auth looking for the requester's Administrator role in
\* any domain and tenant
check_context_auth_any_scope(tbl, req_user_id, user_id, domain, tenant_id) ==
    LET admin_id == (CHOOSE r \in luxon_role : r.name = "Administrator").id
        cur == {r \in tbl : r.user_id = req_user_id /\ r.role_id = admin_id}
        ucur == {u \in luxon_user : /\ u.id = user_id
                                    /\ u.domain = domain
                                    /\ u.tenant_id = tenant_id}
    IN  IF req_user_id # ROOT_USER_ID /\ cur = {}
        THEN "AccessDenied: not authorized"
        ELSE IF ucur = {}
        THEN "AccessDenied: does not exist"
        ELSE ""

\* check_context_auth looking the requested user up by id only
check_context_auth_any_user_scope(tbl, req_user_id, user_id, domain, tenant_id) ==
    LET admin_id == (CHOOSE r \in luxon_role : r.name = "Administrator").id
        cur == {r \in tbl : /\ r.user_id = req_user_id
                            /\ r.domain = domain
                            /\ r.tenant_id = tenant_id
                            /\ r.role_id = admin_id}
        ucur == {u \in luxon_user : u.id = user_id}
    IN  IF req_user_id # ROOT_USER_ID /\ cur = {}
        THEN "AccessDenied: not authorized"
        ELSE IF ucur = {}
        THEN "AccessDenied: does not exist"
        ELSE ""

\* check_context_auth counting an Administrator row with NULL domain or NULL
\* tenant as valid for every domain or tenant
check_context_auth_global_scope(tbl, req_user_id, user_id, domain, tenant_id) ==
    LET admin_id == (CHOOSE r \in luxon_role : r.name = "Administrator").id
        cur == {r \in tbl : /\ r.user_id = req_user_id
                            /\ (r.domain = NULL \/ r.domain = domain)
                            /\ (r.tenant_id = NULL \/ r.tenant_id = tenant_id)
                            /\ r.role_id = admin_id}
        ucur == {u \in luxon_user : /\ u.id = user_id
                                    /\ u.domain = domain
                                    /\ u.tenant_id = tenant_id}
    IN  IF req_user_id # ROOT_USER_ID /\ cur = {}
        THEN "AccessDenied: not authorized"
        ELSE IF ucur = {}
        THEN "AccessDenied: does not exist"
        ELSE ""

\* check_context_auth without the lookup of the requested user
check_context_auth_no_target(tbl, req_user_id, user_id, domain, tenant_id) ==
    LET admin_id == (CHOOSE r \in luxon_role : r.name = "Administrator").id
        cur == {r \in tbl : /\ r.user_id = req_user_id
                            /\ r.domain = domain
                            /\ r.tenant_id = tenant_id
                            /\ r.role_id = admin_id}
    IN  IF req_user_id # ROOT_USER_ID /\ cur = {}
        THEN "AccessDenied: not authorized"
        ELSE ""

\* check_context_auth without the exemption of the Root user
check_context_auth_no_root(tbl, req_user_id, user_id, domain, tenant_id) ==
    LET admin_id == (CHOOSE r \in luxon_role : r.name = "Administrator").id
        cur == {r \in tbl : /\ r.user_id = req_user_id
                            /\ r.domain = domain
                            /\ r.tenant_id = tenant_id
                            /\ r.role_id = admin_id}
        ucur == {u \in luxon_user : /\ u.id = user_id
                                    /\ u.domain = domain
                                    /\ u.tenant_id = tenant_id}
    IN  IF cur = {}
        THEN "AccessDenied: not authorized"
        ELSE IF ucur = {}
        THEN "AccessDenied: does not exist"
        ELSE ""

(***************************************************************************)
(* check_context_auth: the exception it raises, "" when it returns.        *)
(* In the SQL text 'role_id' is written between single quotes: it is the   *)
(* string literal 'role_id', not the column, compared with the all-zero    *)
(* identifier.                                                             *)
(***************************************************************************)
check_context_auth(tbl, req_user_id, user_id, domain, tenant_id) ==
    LET admin_id == (CHOOSE r \in luxon_role : r.name = "Administrator").id
        where == [user_id |-> req_user_id,
                  domain |-> domain,
                  tenant_id |-> tenant_id]
        cur == {r \in tbl : /\ parse_sql_where(where, r)
                            /\ (\/ <<"role_id">> = GLOBAL_ADMIN_ROLE_ID
                                \/ r.role_id = admin_id)}
        uwhere == [id |-> user_id,
                   domain |-> domain,
                   tenant_id |-> tenant_id]
        ucur == {u \in luxon_user : parse_sql_where(uwhere, u)}
    IN  IF req_user_id # ROOT_USER_ID /\ cur = {}
        THEN "AccessDenied: not authorized"
        ELSE IF ucur = {}
        THEN "AccessDenied: does not exist"
        ELSE ""

\* add_user_role inserting and committing before the call of check_unique
add_user_role_insert_first(tbl, req_user_id, id, role, domain_arg, tenant_id) ==
    LET domain == IF domain_arg # NULL /\ lower(domain_arg) = none
                  THEN NULL ELSE domain_arg
        auth == check_context_auth(tbl, req_user_id, id, domain, tenant_id)
        uniq == check_unique(tbl, id, role, domain, tenant_id)
        user_role == [id |-> uuid4(tbl, id, role, domain, tenant_id),
                      user_id |-> id,
                      role_id |-> role,
                      domain |-> domain,
                      tenant_id |-> tenant_id]
    IN  IF auth # "" THEN [exc |-> auth, body |-> {}, table |-> tbl]
        ELSE IF uniq # ""
        THEN [exc |-> uniq, body |-> {}, table |-> tbl \cup {user_role}]
        ELSE [exc |-> "", body |-> {user_role}, table |-> tbl \cup {user_role}]

\* add_user_role calling check_unique before check_context_auth
add_user_role_unique_first(tbl, req_user_id, id, role, domain_arg, tenant_id) ==
    LET domain == IF domain_arg # NULL /\ lower(domain_arg) = none
                  THEN NULL ELSE domain_arg
        auth == check_context_auth(tbl, req_user_id, id, domain, tenant_id)
        uniq == check_unique(tbl, id, role, domain, tenant_id)
        user_role == [id |-> uuid4(tbl, id, role, domain, tenant_id),
                      user_id |-> id,
                      role_id |-> role,
                      domain |-> domain,
                      tenant_id |-> tenant_id]
    IN  IF uniq # "" THEN [exc |-> uniq, body |-> {}, table |-> tbl]
        ELSE IF auth # "" THEN [exc |-> auth, body |-> {}, table |-> tbl]
        ELSE [exc |-> "", body |-> {user_role}, table |-> tbl \cup {user_role}]

\* add_user_role inserting without the call of check_unique
add_user_role_no_check(tbl, req_user_id, id, role, domain_arg, tenant_id) ==
    LET domain == IF domain_arg # NULL /\ lower(domain_arg) = none
                  THEN NULL ELSE domain_arg
        auth == check_context_auth(tbl, req_user_id, id, domain, tenant_id)
        user_role == [id |-> uuid4(tbl, id, role, domain, tenant_id),
                      user_id |-> id,
                      role_id |-> role,
                      domain |-> domain,
                      tenant_id |-> tenant_id]
    IN  IF auth # "" THEN [exc |-> auth, body |-> {}, table |-> tbl]
        ELSE [exc |-> "", body |-> {user_role}, table |-> tbl \cup {user_role}]

\* add_user_role comparing the domain with "none" without lower()
add_user_role_no_lower(tbl, req_user_id, id, role, domain_arg, tenant_id) ==
    LET domain == IF domain_arg # NULL /\ domain_arg = none
                  THEN NULL ELSE domain_arg
        auth == check_context_auth(tbl, req_user_id, id, domain, tenant_id)
        uniq == check_unique(tbl, id, role, domain, tenant_id)
        user_role == [id |-> uuid4(tbl, id, role, domain, tenant_id),
                      user_id |-> id,
                      role_id |-> role,
                      domain |-> domain,
                      tenant_id |-> tenant_id]
    IN  IF auth # "" THEN [exc |-> auth, body |-> {}, table |-> tbl]
        ELSE IF uniq # "" THEN [exc |-> uniq, body |-> {}, table |-> tbl]
        ELSE [exc |-> "", body |-> {user_role}, table |-> tbl \cup {user_role}]

(***************************************************************************)
(* AddUserRoles.add_user_role: the exception raised ("" on return), the    *)
(* returned record and the table it leaves                                 *)
(***************************************************************************)
add_user_role(tbl, req_user_id, id, role, domain_arg, tenant_id) ==
    LET domain == IF domain_arg # NULL /\ lower(domain_arg) = none
                  THEN NULL ELSE domain_arg
        auth == check_context_auth(tbl, req_user_id, id, domain, tenant_id)
        uniq == check_unique(tbl, id, role, domain, tenant_id)
        user_role == [id |-> uuid4(tbl, id, role, domain, tenant_id),
                      user_id |-> id,
                      role_id |-> role,
                      domain |-> domain,
                      tenant_id |-> tenant_id]
    IN  IF auth # "" THEN [exc |-> auth, body |-> {}, table |-> tbl]
        ELSE IF uniq # "" THEN [exc |-> uniq, body |-> {}, table |-> tbl]
        ELSE [exc |-> "", body |-> {user_role}, table |-> tbl \cup {user_role}]

\* rm_user_role deleting the user's rows in the scope whatever their role
rm_user_role_any_role(tbl, id, role, domain, tenant_id) ==
    LET deleted == {r \in tbl : /\ r.user_id = id
                                /\ r.domain = domain
                                /\ r.tenant_id = tenant_id}
        rowcount == Cardinality(deleted)
    IN  [exc |-> IF rowcount = 0 THEN "HTTPNotFound" ELSE "",
         body |-> {},
         table |-> tbl \ deleted]

\* rm_user_role leaving a None domain or tenant out of the filter
rm_user_role_null_any(tbl, id, role, domain, tenant_id) ==
    LET deleted == {r \in tbl : /\ r.user_id = id
                                /\ r.role_id = role
                                /\ (domain = NULL \/ r.domain = domain)
                                /\ (tenant_id = NULL \/ r.tenant_id = tenant_id)}
        rowcount == Cardinality(deleted)
    IN  [exc |-> IF rowcount = 0 THEN "HTTPNotFound" ELSE "",
         body |-> {},
         table |-> tbl \ deleted]

(***************************************************************************)
(* RmUserRoles.rm_user_role                                                *)
(***************************************************************************)
rm_user_role(tbl, id, role, domain, tenant_id) ==
    LET where == [user_id |-> id,
                  role_id |-> role,
                  tenant_id |-> tenant_id,
                  domain |-> domain]
        deleted == {r \in tbl : parse_sql_where(where, r)}
        rowcount == Cardinality(deleted)
    IN  [exc |-> IF rowcount = 0 THEN "HTTPNotFound" ELSE "",
         body |-> {},
         table |-> tbl \ deleted]

\* user_roles treating an absent header as "the column is NULL"
user_roles_null_aware(tbl, id, domain, tenant_id) ==
    [exc |-> "",
     body |-> {r \in tbl : /\ r.user_id = id
                           /\ r.domain = domain
                           /\ r.tenant_id = tenant_id},
     table |-> tbl]

(***************************************************************************)
(* user_roles: domain and tenant_id are the X-Domain and X-Tenant-Id       *)
(* headers, NULL when the header is absent; `if domain:` is false for None *)
(* and for the empty text                                                  *)
(***************************************************************************)
user_roles(tbl, id, domain, tenant_id) ==
    LET given(v) == v # NULL /\ v # <<>>
    IN  [exc |-> "",
         body |-> {r \in tbl : /\ r.user_id = id
                               /\ (given(domain) => r.domain = domain)
                               /\ (given(tenant_id) => r.tenant_id = tenant_id)},
         table |-> tbl]

(***************************************************************************)
(* The state machine: one request handled per step                         *)
(***************************************************************************)
Request(op, req_user_id, id, role, domain, tenant_id, res) ==
    [op |-> op, req_user_id |-> req_user_id, id |-> id, role |-> role,
     domain |-> domain, tenant_id |-> tenant_id,
     exc |-> res.exc, body |-> res.body]

\* the database connections of requests handled at the same time
Workers == {"w1", "w2"}

\* a connection with no Create between its guards and its INSERT
Idle ==
    [pc |-> "idle", req_user_id |-> NULL, id |-> NULL, role |-> NULL,
     domain_arg |-> NULL, domain |-> NULL, tenant_id |-> NULL]

Init ==
    /\ luxon_user_role = {}
    /\ last = [op |-> "", req_user_id |-> NULL, id |-> NULL, role |-> NULL,
               domain |-> NULL, tenant_id |-> NULL, exc |-> "", body |-> {}]
    /\ conn = [w \in Workers |-> Idle]

\* POST /v1/rbac/user/{id}/{role}[/{domain}[/{tenant_id}]]
AddUserRoles ==
    \E req_user_id \in Requesters, id \in UserIds, role \in RoleIds, a \in RouteArgs :
        LET res == add_user_role(luxon_user_role, req_user_id, id, role, a[1], a[2])
        IN  /\ luxon_user_role' = res.table
            /\ last' = Request("POST", req_user_id, id, role, a[1], a[2], res)
            /\ UNCHANGED conn

\* RmUserRoles calling check_context_auth before the DELETE, as
\* add_user_role does before the INSERT
RmUserRoles_with_auth ==
    \E req_user_id \in Requesters, id \in UserIds, role \in RoleIds, a \in RouteArgs :
        LET auth == check_context_auth(luxon_user_role, req_user_id, id, a[1], a[2])
            rm == rm_user_role(luxon_user_role, id, role, a[1], a[2])
            res == IF auth # ""
                   THEN [exc |-> auth, body |-> {}, table |-> luxon_user_role]
                   ELSE rm
        IN  /\ luxon_user_role' = res.table
            /\ last' = Request("DELETE", req_user_id, id, role, a[1], a[2], res)
            /\ UNCHANGED conn

\* DELETE /v1/rbac/user/{id}/{role}[/{domain}[/{tenant_id}]]
RmUserRoles ==
    \E req_user_id \in Requesters, id \in UserIds, role \in RoleIds, a \in RouteArgs :
        LET res == rm_user_role(luxon_user_role, id, role, a[1], a[2])
        IN  /\ luxon_user_role' = res.table
            /\ last' = Request("DELETE", req_user_id, id, role, a[1], a[2], res)
            /\ UNCHANGED conn

\* GET /v1/rbac/user/{id}
UserRoles ==
    \E req_user_id \in Requesters, id \in UserIds, a \in HeaderArgs :
        LET res == user_roles(luxon_user_role, id, a[1], a[2])
        IN  /\ luxon_user_role' = res.table
            /\ last' = Request("GET", req_user_id, id, NULL, a[1], a[2], res)
            /\ UNCHANGED conn

Next == AddUserRoles \/ RmUserRoles \/ UserRoles

Spec == Init /\ [][Next]_vars

(***************************************************************************)
(* Two Creates handled at the same time, each on its own connection: the   *)
(* guards read the committed table, the INSERT and commit come later, and  *)
(* steps of the other request may fall between them.  luxon_user_role has  *)
(* no constraint that holds for rows with a NULL domain or tenant.         *)
(***************************************************************************)
\* the requests issued at the same time
ConcRequesters == {ROOT_USER_ID, u1}
ConcUserIds == {u1}
ConcRouteArgs == {<<NULL, NULL>>, <<none, NULL>>, <<d_x, NULL>>}

\* add_user_role up to its INSERT: the exception the guards raise, "" when
\* both return
guards(tbl, req_user_id, id, role, domain, tenant_id) ==
    LET auth == check_context_auth(tbl, req_user_id, id, domain, tenant_id)
        uniq == check_unique(tbl, id, role, domain, tenant_id)
    IN  IF auth # "" THEN auth ELSE uniq

\* the INSERT refused by a unique index that treats NULL as a value
insert_user_role_unique_index(tbl, id, role, domain, tenant_id) ==
    LET same == {r \in tbl : /\ r.user_id = id
                             /\ r.role_id = role
                             /\ r.domain = domain
                             /\ r.tenant_id = tenant_id}
        user_role == [id |-> uuid4(tbl, id, role, domain, tenant_id),
                      user_id |-> id,
                      role_id |-> role,
                      domain |-> domain,
                      tenant_id |-> tenant_id]
    IN  IF same # {}
        THEN [exc |-> "IntegrityError", body |-> {}, table |-> tbl]
        ELSE [exc |-> "", body |-> {user_role}, table |-> tbl \cup {user_role}]

\* add_user_role from its INSERT on: insert, commit and return the record
insert_user_role(tbl, id, role, domain, tenant_id) ==
    LET user_role == [id |-> uuid4(tbl, id, role, domain, tenant_id),
                      user_id |-> id,
                      role_id |-> role,
                      domain |-> domain,
                      tenant_id |-> tenant_id]
    IN  [exc |-> "", body |-> {user_role}, table |-> tbl \cup {user_role}]

\* connection w takes a Create and runs its guards
Guards(w) ==
    /\ conn[w] = Idle
    /\ \E req_user_id \in ConcRequesters, id \in ConcUserIds,
          role \in RoleIds, a \in ConcRouteArgs :
          LET domain == IF a[1] # NULL /\ lower(a[1]) = none THEN NULL ELSE a[1]
              exc == guards(luxon_user_role, req_user_id, id, role, domain, a[2])
          IN  IF exc # ""
              THEN /\ last' = Request("POST", req_user_id, id, role, a[1], a[2],
                                      [exc |-> exc, body |-> {}])
                   /\ UNCHANGED <<luxon_user_role, conn>>
              ELSE /\ conn' = [conn EXCEPT ![w] =
                                 [pc |-> "insert", req_user_id |-> req_user_id,
                                  id |-> id, role |-> role, domain_arg |-> a[1],
                                  domain |-> domain, tenant_id |-> a[2]]]
                   /\ UNCHANGED <<luxon_user_role, last>>

\* connection w inserts the row of the Create whose guards returned
Insert(w) ==
    /\ conn[w].pc = "insert"
    /\ LET c == conn[w]
           res == insert_user_role(luxon_user_role, c.id, c.role, c.domain, c.tenant_id)
       IN  /\ luxon_user_role' = res.table
           /\ last' = Request("POST", c.req_user_id, c.id, c.role,
                              c.domain_arg, c.tenant_id, res)
           /\ conn' = [conn EXCEPT ![w] = Idle]

NextConc == \E w \in Workers : Guards(w) \/ Insert(w)

SpecConc == Init /\ [][NextConc]_vars

(***************************************************************************)
(* Vocabulary of the properties                                            *)
(***************************************************************************)
\* the domain a request asks for: the text "none", in any casing, is no domain
RequestedDomain(d) == IF d \in NoneCasings THEN NULL ELSE d

\* the rows holding exactly this tuple; NULL equals only NULL
RowsOf(tbl, id, role, domain, tenant_id) ==
    {r \in tbl : /\ r.user_id = id
                 /\ r.role_id = role
                 /\ r.domain = domain
                 /\ r.tenant_id = tenant_id}

\* a User record with this id in exactly this domain and tenant
UserExists(id, domain, tenant_id) ==
    \E u \in luxon_user : u.id = id /\ u.domain = domain /\ u.tenant_id = tenant_id

\* the requester holds one of `roles` in exactly this domain and tenant
HoldsIn(tbl, req_user_id, roles, domain, tenant_id) ==
    \E r \in tbl : /\ r.user_id = req_user_id
                   /\ r.role_id \in roles
                   /\ r.domain = domain
                   /\ r.tenant_id = tenant_id

\* this Create, issued on tbl, is refused as a duplicate and adds no row
RefusedAsDuplicate(tbl, req_user_id, id, role, domain, tenant_id) ==
    LET res == add_user_role(tbl, req_user_id, id, role, domain, tenant_id)
    IN  res.exc = "ValidationError" /\ res.table = tbl

(***************************************************************************)
(* Properties                                                              *)
(***************************************************************************)

\* C1: once a Create has succeeded, the same Create (same requester, user,
\* role, domain and tenant) is refused with ValidationError and adds no row
\* for as long as no Remove intervenes.  Stated step by step: a successful
\* Create leaves a table on which the same request is refused as a
\* duplicate; every Create step, whatever its arguments, keeps every request
\* refused that was refused before it; and a Create step whose request is
\* refused on the current table returns ValidationError and leaves the
\* table as it was.
C1_SecondCreateRefused ==
    [][last'.op = "POST" =>
        /\ last'.exc = "" =>
              RefusedAsDuplicate(luxon_user_role', last'.req_user_id, last'.id,
                                 last'.role, last'.domain, last'.tenant_id)
        /\ \/ luxon_user_role' = luxon_user_role
           \/ \A q \in Requesters, id \in UserIds, role \in RoleIds, a \in RouteArgs :
                 RefusedAsDuplicate(luxon_user_role, q, id, role, a[1], a[2])
                     => RefusedAsDuplicate(luxon_user_role', q, id, role, a[1], a[2])
        /\ RefusedAsDuplicate(luxon_user_role, last'.req_user_id, last'.id,
                              last'.role, last'.domain, last'.tenant_id)
              => /\ last'.exc = "ValidationError"
                 /\ luxon_user_role' = luxon_user_role
    ]_vars

\* a tenant administrator who is not root repeats a Create in the global
\* domain, asked for as "None", and is refused
C1_Witness ==
    /\ last.op = "POST"
    /\ last.exc = "ValidationError"
    /\ last.req_user_id = u2
    /\ last.domain = d_None
    /\ RowsOf(luxon_user_role, last.id, last.role, NULL, last.tenant_id) # {}

\* C2: no two rows of the table have the same (user_id, role_id, domain,
\* tenant_id), NULL being equal to NULL
C2_TupleUnique ==
    \A r1 \in luxon_user_role, r2 \in luxon_user_role :
        (/\ r1.user_id = r2.user_id
         /\ r1.role_id = r2.role_id
         /\ r1.domain = r2.domain
         /\ r1.tenant_id = r2.tenant_id) => r1 = r2

\* a Create of a tuple with NULL domain and NULL tenant was refused while the
\* table holds that tuple and the same user and role in a named domain
C2_Witness ==
    /\ last.op = "POST"
    /\ last.exc = "ValidationError"
    /\ RequestedDomain(last.domain) = NULL
    /\ last.tenant_id = NULL
    /\ Cardinality(RowsOf(luxon_user_role, last.id, last.role, NULL, NULL)) = 1
    /\ RowsOf(luxon_user_role, last.id, last.role, d_x, NULL) # {}

\* C3: a Create by a requester who is not root and holds neither the
\* Administrator role nor the all-zero role in exactly the requested domain
\* and tenant fails with the "not authorized" AccessDenied and inserts
\* nothing, whether or not the target user exists in that scope
C3_UnprivilegedDenied ==
    [][(/\ last'.op = "POST"
        /\ last'.req_user_id # ROOT_USER_ID
        /\ ~HoldsIn(luxon_user_role, last'.req_user_id,
                    {r_admin, GLOBAL_ADMIN_ROLE_ID},
                    RequestedDomain(last'.domain), last'.tenant_id))
       => /\ last'.exc = "AccessDenied: not authorized"
          /\ last'.body = {}
          /\ luxon_user_role' = luxon_user_role
    ]_vars

\* the requester is an Administrator in another scope, the target user
\* exists in the requested scope, and the Create was denied
C3_Witness ==
    /\ last.op = "POST"
    /\ last.exc = "AccessDenied: not authorized"
    /\ last.req_user_id # ROOT_USER_ID
    /\ UserExists(last.id, RequestedDomain(last.domain), last.tenant_id)
    /\ \E r \in luxon_user_role :
          r.user_id = last.req_user_id /\ r.role_id = r_admin
    /\ ~HoldsIn(luxon_user_role, last.req_user_id,
                {r_admin, GLOBAL_ADMIN_ROLE_ID},
                RequestedDomain(last.domain), last.tenant_id)

\* C4: a requester who is not root and holds the all-zero role, and not the
\* Administrator role, in exactly the requested domain and tenant passes the
\* privilege check: the Create succeeds when the target user exists in that
\* scope and the tuple is not assigned yet
C4_SentinelAuthorizes ==
    [][(/\ last'.op = "POST"
        /\ last'.req_user_id # ROOT_USER_ID
        /\ HoldsIn(luxon_user_role, last'.req_user_id, {GLOBAL_ADMIN_ROLE_ID},
                   RequestedDomain(last'.domain), last'.tenant_id)
        /\ ~HoldsIn(luxon_user_role, last'.req_user_id, {r_admin},
                    RequestedDomain(last'.domain), last'.tenant_id)
        /\ UserExists(last'.id, RequestedDomain(last'.domain), last'.tenant_id)
        /\ RowsOf(luxon_user_role, last'.id, last'.role,
                  RequestedDomain(last'.domain), last'.tenant_id) = {})
       => /\ last'.exc = ""
          /\ RowsOf(luxon_user_role', last'.id, last'.role,
                    RequestedDomain(last'.domain), last'.tenant_id) # {}
    ]_vars

\* C5: a Create by root, or by a requester holding the Administrator role in
\* exactly the requested domain and tenant, fails with the "does not exist
\* in context" AccessDenied and inserts nothing when no User record has the
\* target id in exactly the requested domain and tenant
C5_AbsentTargetDenied ==
    [][(/\ last'.op = "POST"
        /\ \/ last'.req_user_id = ROOT_USER_ID
           \/ HoldsIn(luxon_user_role, last'.req_user_id, {r_admin},
                      RequestedDomain(last'.domain), last'.tenant_id)
        /\ ~UserExists(last'.id, RequestedDomain(last'.domain), last'.tenant_id))
       => /\ last'.exc = "AccessDenied: does not exist"
          /\ last'.body = {}
          /\ luxon_user_role' = luxon_user_role
    ]_vars

\* an Administrator who is not root asked for a user that has a User record,
\* but in another scope
C5_Witness ==
    /\ last.op = "POST"
    /\ last.exc = "AccessDenied: does not exist"
    /\ last.req_user_id # ROOT_USER_ID
    /\ HoldsIn(luxon_user_role, last.req_user_id, {r_admin},
               RequestedDomain(last.domain), last.tenant_id)
    /\ \E u \in luxon_user : u.id = last.id
    /\ ~UserExists(last.id, RequestedDomain(last.domain), last.tenant_id)

\* C6: a Create by root succeeds and inserts exactly one row, whatever the
\* table holds, when the target user exists in the requested domain and
\* tenant and the tuple is not assigned yet
C6_RootCreates ==
    [][(/\ last'.op = "POST"
        /\ last'.req_user_id = ROOT_USER_ID
        /\ UserExists(last'.id, RequestedDomain(last'.domain), last'.tenant_id)
        /\ RowsOf(luxon_user_role, last'.id, last'.role,
                  RequestedDomain(last'.domain), last'.tenant_id) = {})
       => /\ last'.exc = ""
          /\ luxon_user_role' = luxon_user_role \cup last'.body
          /\ Cardinality(luxon_user_role') = Cardinality(luxon_user_role) + 1
          /\ \A r \in last'.body :
                /\ r.user_id = last'.id
                /\ r.role_id = last'.role
                /\ r.domain = RequestedDomain(last'.domain)
                /\ r.tenant_id = last'.tenant_id
    ]_vars

\* root, holding no row of the table, added a row to a table that already
\* held rows of others
C6_Witness ==
    /\ last.op = "POST"
    /\ last.exc = ""
    /\ last.req_user_id = ROOT_USER_ID
    /\ \A r \in luxon_user_role : r.user_id # ROOT_USER_ID
    /\ Cardinality(luxon_user_role) >= 3
    /\ last.body \subseteq luxon_user_role

\* C7: a Remove for which no row holds exactly the tuple asked for fails
\* with NotFound and leaves the table as it was
C7_RemoveAbsent ==
    [][(/\ last'.op = "DELETE"
        /\ RowsOf(luxon_user_role, last'.id, last'.role,
                  last'.domain, last'.tenant_id) = {})
       => /\ last'.exc = "HTTPNotFound"
          /\ luxon_user_role' = luxon_user_role
    ]_vars

\* a Remove without domain found nothing although the user holds the role in
\* domain "x", and another role without domain
C7_Witness ==
    /\ last.op = "DELETE"
    /\ last.exc = "HTTPNotFound"
    /\ last.domain = NULL
    /\ last.tenant_id = NULL
    /\ RowsOf(luxon_user_role, last.id, last.role, d_x, NULL) # {}
    /\ \E r \in luxon_user_role :
          r.user_id = last.id /\ r.role_id # last.role /\ r.domain = NULL

\* C8: a Remove for which a row holds exactly the tuple asked for succeeds
\* and deletes the rows holding that tuple and no other row
C8_RemoveExact ==
    [][(/\ last'.op = "DELETE"
        /\ RowsOf(luxon_user_role, last'.id, last'.role,
                  last'.domain, last'.tenant_id) # {})
       => /\ last'.exc = ""
          /\ luxon_user_role' =
                luxon_user_role \ RowsOf(luxon_user_role, last'.id, last'.role,
                                         last'.domain, last'.tenant_id)
    ]_vars

\* a Remove without domain succeeded and the row of the same user and role
\* in domain "x" is still there
C8_Witness ==
    /\ last.op = "DELETE"
    /\ last.exc = ""
    /\ last.domain = NULL
    /\ RowsOf(luxon_user_role, last.id, last.role, NULL, last.tenant_id) = {}
    /\ RowsOf(luxon_user_role, last.id, last.role, d_x, last.tenant_id) # {}

\* C9: on every table, for every requester, user, role and tenant, a Create
\* with the domain "none" in any letter casing raises what the Create
\* without domain raises, returns what it returns and leaves the table it
\* leaves, with a NULL domain in the stored row; and each Create step taken
\* with such a domain is the step the Create without domain takes
C9_NoneIsNoDomain ==
    /\ [](\A q \in Requesters, id \in UserIds, role \in RoleIds,
             t \in TenantIds \cup {NULL}, d \in NoneCasings :
             /\ add_user_role(luxon_user_role, q, id, role, d, t)
                   = add_user_role(luxon_user_role, q, id, role, NULL, t)
             /\ \A r \in add_user_role(luxon_user_role, q, id, role, d, t).body :
                   r.domain = NULL)
    /\ [][(last'.op = "POST" /\ last'.domain \in NoneCasings)
          => LET res == add_user_role(luxon_user_role, last'.req_user_id,
                                      last'.id, last'.role, NULL, last'.tenant_id)
             IN  /\ last'.exc = res.exc
                 /\ last'.body = res.body
                 /\ luxon_user_role' = res.table
       ]_vars

\* a Create with domain "None" stored a row with NULL domain
C9_Witness ==
    /\ last.op = "POST"
    /\ last.exc = ""
    /\ last.domain = d_None
    /\ \E r \in last.body : r.domain = NULL /\ r \in luxon_user_role

\* a Create without domain has succeeded and the same requester now asks for
\* the same user, role and tenant in a named domain
C10_NamedAfterNull ==
    /\ last.op = "POST"
    /\ last.exc = ""
    /\ RequestedDomain(last.domain) = NULL
    /\ last'.op = "POST"
    /\ RequestedDomain(last'.domain) # NULL
    /\ last'.req_user_id = last.req_user_id
    /\ last'.id = last.id
    /\ last'.role = last.role
    /\ last'.tenant_id = last.tenant_id

\* C10 as stated: for the same user and role, a Create with domain NULL
\* followed by a Create with a named domain both succeed and leave two
\* distinct rows
C10_BothSucceed ==
    [][C10_NamedAfterNull
       => /\ last'.exc = ""
          /\ RowsOf(luxon_user_role', last'.id, last'.role,
                    NULL, last'.tenant_id) # {}
          /\ RowsOf(luxon_user_role', last'.id, last'.role,
                    last'.domain, last'.tenant_id) # {}
    ]_vars

\* C10, amended: the row with NULL domain is never a duplicate of the named
\* domain (ValidationError only when a row of the named domain is there);
\* the second Create succeeds and leaves two distinct rows when the
\* requester is root or Administrator in the named domain, the target user
\* has a User record there and no row of the named domain is there; when
\* the requester is not so authorized or the User record is missing it
\* fails with AccessDenied and inserts nothing
C10_NullNeverDuplicatesNamed ==
    [][C10_NamedAfterNull
       => LET authorized ==
                  \/ last'.req_user_id = ROOT_USER_ID
                  \/ HoldsIn(luxon_user_role, last'.req_user_id, {r_admin},
                             last'.domain, last'.tenant_id)
              exists == UserExists(last'.id, last'.domain, last'.tenant_id)
              present == RowsOf(luxon_user_role, last'.id, last'.role,
                                last'.domain, last'.tenant_id) # {}
          IN  /\ last'.exc = "ValidationError" => present
              /\ (authorized /\ exists /\ ~present)
                    => /\ last'.exc = ""
                       /\ RowsOf(luxon_user_role', last'.id, last'.role,
                                 NULL, last'.tenant_id) # {}
                       /\ RowsOf(luxon_user_role', last'.id, last'.role,
                                 last'.domain, last'.tenant_id) # {}
                       /\ Cardinality(luxon_user_role')
                             = Cardinality(luxon_user_role) + 1
              /\ ~(authorized /\ exists)
                    => /\ last'.exc \in {"AccessDenied: not authorized",
                                         "AccessDenied: does not exist"}
                       /\ luxon_user_role' = luxon_user_role
    ]_vars

\* the Create in domain "x" succeeded and the table holds the user's role
\* both without domain and in domain "x"
C10_Witness ==
    /\ last.op = "POST"
    /\ last.exc = ""
    /\ last.domain = d_x
    /\ last.body \subseteq luxon_user_role
    /\ RowsOf(luxon_user_role, last.id, last.role, NULL, last.tenant_id) # {}
    /\ RowsOf(luxon_user_role, last.id, last.role, d_x, last.tenant_id) # {}

\* C11: a Create that raises (either AccessDenied or ValidationError) leaves
\* the table exactly as it was and returns no record; a Create changes the
\* table only when it returns, and then by the one record it returns
C11_FailedCreateWritesNothing ==
    [][last'.op = "POST" =>
        /\ last'.exc \in {"", "ValidationError", "AccessDenied: not authorized",
                          "AccessDenied: does not exist"}
        /\ last'.exc # "" => (luxon_user_role' = luxon_user_role /\ last'.body = {})
        /\ last'.exc = "" => /\ Cardinality(last'.body) = 1
                             /\ last'.body \cap luxon_user_role = {}
                             /\ luxon_user_role' = luxon_user_role \cup last'.body
    ]_vars

\* a duplicate Create by an Administrator who is not root was refused on a
\* table that holds rows
C11_Witness ==
    /\ last.op = "POST"
    /\ last.exc = "ValidationError"
    /\ last.req_user_id = u1
    /\ last.body = {}
    /\ Cardinality(luxon_user_role) >= 2

\* C12: List for a user returns exactly the rows of that user, whatever
\* their domain and tenant, when no selector is given; with a domain and/or
\* a tenant selector it returns exactly the user's rows equal to the given
\* value on each selected column; List never changes the table
C12_ListExact ==
    [][last'.op = "GET" =>
        /\ luxon_user_role' = luxon_user_role
        /\ last'.exc = ""
        /\ last'.body =
              {r \in luxon_user_role :
                  /\ r.user_id = last'.id
                  /\ (last'.domain # NULL => r.domain = last'.domain)
                  /\ (last'.tenant_id # NULL => r.tenant_id = last'.tenant_id)}
    ]_vars

\* a List without selectors returned rows of the user with a NULL domain and
\* with domain "x", and left out the rows of the other user
C12_Witness ==
    /\ last.op = "GET"
    /\ last.domain = NULL
    /\ last.tenant_id = NULL
    /\ \E r \in last.body : r.domain = NULL
    /\ \E r \in last.body : r.domain = d_x
    /\ \E r \in luxon_user_role : r.user_id # last.id
    /\ last.body = {r \in luxon_user_role : r.user_id = last.id}

\* C13: with the guards and the INSERT of a Create as separate steps of
\* its connection, a Create passes the Uniqueness Guard whenever the
\* committed table holds no row of its tuple, and once it has passed it
\* inserts its row whatever the other connection has inserted meanwhile;
\* so two Creates of one tuple that both pass before either inserts leave
\* two rows of that tuple
C13_CheckedCreateInserts ==
    [][\A w \in Workers :
          /\ (conn[w].pc = "idle" /\ conn'[w].pc = "insert")
                => /\ RowsOf(luxon_user_role, conn'[w].id, conn'[w].role,
                             conn'[w].domain, conn'[w].tenant_id) = {}
                   /\ luxon_user_role' = luxon_user_role
          /\ (conn[w].pc = "insert" /\ conn'[w].pc = "idle")
                => /\ last'.exc = ""
                   /\ Cardinality(luxon_user_role') = Cardinality(luxon_user_role) + 1
                   /\ last'.body \subseteq luxon_user_role'
                   /\ \A r \in last'.body :
                         /\ r.user_id = conn[w].id
                         /\ r.role_id = conn[w].role
                         /\ r.domain = conn[w].domain
                         /\ r.tenant_id = conn[w].tenant_id
    ]_vars

\* the table holds two rows with the same user, role, NULL domain and NULL
\* tenant, the second just inserted
C13_Witness ==
    /\ last.op = "POST"
    /\ last.exc = ""
    /\ \E r1 \in luxon_user_role, r2 \in last.body :
          /\ r1 # r2
          /\ r2 \in luxon_user_role
          /\ r1.user_id = r2.user_id
          /\ r1.role_id = r2.role_id
          /\ r1.domain = r2.domain
          /\ r1.tenant_id = r2.tenant_id
          /\ r1.domain = NULL
          /\ r1.tenant_id = NULL

\* C14: the outcome of a Remove and the table it leaves are fixed by the
\* (user, role, domain, tenant) asked for and the table alone, whoever the
\* requester is and whatever the requester holds: it is never AccessDenied,
\* it is NotFound exactly when no row holds the tuple, and otherwise the
\* rows holding the tuple are deleted
C14_RemoveUnguarded ==
    [][last'.op = "DELETE" =>
        LET matching == RowsOf(luxon_user_role, last'.id, last'.role,
                               last'.domain, last'.tenant_id)
        IN  /\ last'.exc = IF matching = {} THEN "HTTPNotFound" ELSE ""
            /\ luxon_user_role' = luxon_user_role \ matching
    ]_vars

\* a requester who is not root and holds no row at all removed a row of
\* another user
C14_Witness ==
    /\ last.op = "DELETE"
    /\ last.exc = ""
    /\ last.req_user_id # ROOT_USER_ID
    /\ last.req_user_id # last.id
    /\ \A r \in luxon_user_role : r.user_id # last.req_user_id
    /\ RowsOf(luxon_user_role, last.id, last.role, last.domain, last.tenant_id) = {}
    /\ luxon_user_role # {}

\* C15: a Remove with the domain given as the text "none" targets the NULL
\* domain: issued right after a successful Create with the same user, role,
\* domain "none" and tenant, it succeeds and leaves the table as it was
\* before the Create
C15_RemoveNoneUndoesCreate ==
    [][(/\ last.op = "POST"
        /\ last.exc = ""
        /\ last.domain = none
        /\ last'.op = "DELETE"
        /\ last'.id = last.id
        /\ last'.role = last.role
        /\ last'.domain = last.domain
        /\ last'.tenant_id = last.tenant_id)
       => /\ last'.exc = ""
          /\ luxon_user_role' = luxon_user_role \ last.body
    ]_vars

\* C16: a Create checks the requester's privilege, then the target user,
\* then uniqueness: a requester who is not root and holds neither the
\* Administrator nor the all-zero role in the requested scope gets the "not
\* authorized" AccessDenied when the tuple is a duplicate and when the
\* target user is absent, and ValidationError is only returned for a
\* duplicate asked for by root or an Administrator of that scope with a
\* target user that exists there
C16_GuardOrder ==
    [][last'.op = "POST" =>
        LET domain == RequestedDomain(last'.domain)
            unprivileged ==
                /\ last'.req_user_id # ROOT_USER_ID
                /\ ~HoldsIn(luxon_user_role, last'.req_user_id,
                            {r_admin, GLOBAL_ADMIN_ROLE_ID}, domain, last'.tenant_id)
            privileged ==
                \/ last'.req_user_id = ROOT_USER_ID
                \/ HoldsIn(luxon_user_role, last'.req_user_id, {r_admin},
                           domain, last'.tenant_id)
            exists == UserExists(last'.id, domain, last'.tenant_id)
            duplicate == RowsOf(luxon_user_role, last'.id, last'.role,
                                domain, last'.tenant_id) # {}
        IN  /\ (unprivileged /\ duplicate)
                  => last'.exc = "AccessDenied: not authorized"
            /\ (unprivileged /\ ~exists)
                  => last'.exc = "AccessDenied: not authorized"
            /\ last'.exc = "ValidationError"
                  => (privileged /\ exists /\ duplicate)
    ]_vars

\* a requester without privilege in the scope asked for a tuple the table
\* holds and was denied
C16_Witness ==
    /\ last.op = "POST"
    /\ last.exc = "AccessDenied: not authorized"
    /\ RowsOf(luxon_user_role, last.id, last.role,
              RequestedDomain(last.domain), last.tenant_id) # {}
    /\ ~HoldsIn(luxon_user_role, last.req_user_id,
                {r_admin, GLOBAL_ADMIN_ROLE_ID},
                RequestedDomain(last.domain), last.tenant_id)

\* C17: when a Create by a requester who is not root succeeds, the requester
\* holds the Administrator role in exactly the requested domain and tenant;
\* a requester whose Administrator rows are all in another scope (a NULL
\* domain or tenant where one is asked for, or a different one) is denied
C17_ScopeExact ==
    [][(last'.op = "POST" /\ last'.req_user_id # ROOT_USER_ID) =>
        LET domain == RequestedDomain(last'.domain)
            here == {r \in luxon_user_role :
                        /\ r.user_id = last'.req_user_id
                        /\ r.role_id \in {r_admin, GLOBAL_ADMIN_ROLE_ID}
                        /\ r.domain = domain
                        /\ r.tenant_id = last'.tenant_id}
            elsewhere == {r \in luxon_user_role :
                             /\ r.user_id = last'.req_user_id
                             /\ r.role_id = r_admin
                             /\ (r.domain # domain \/ r.tenant_id # last'.tenant_id)}
        IN  /\ last'.exc = "" => (\E r \in here : r.role_id = r_admin)
            /\ (here = {} /\ elsewhere # {})
                  => /\ last'.exc = "AccessDenied: not authorized"
                     /\ luxon_user_role' = luxon_user_role
    ]_vars

\* an Administrator of domain "x" who is not root created a row in domain
\* "x" while holding no role in the NULL domain
C17_Witness ==
    /\ last.op = "POST"
    /\ last.exc = ""
    /\ last.req_user_id # ROOT_USER_ID
    /\ last.domain = d_x
    /\ HoldsIn(luxon_user_role, last.req_user_id, {r_admin}, d_x, last.tenant_id)
    /\ \A r \in luxon_user_role :
          r.user_id = last.req_user_id => r.domain = d_x
    /\ last.body \subseteq luxon_user_role

\* C18: every row of the table has the domain and tenant_id of a User record
\* of its user_id
C18_RowScopeIsUserScope ==
    \A r \in luxon_user_role : UserExists(r.user_id, r.domain, r.tenant_id)

\* the table holds rows in each of the three scopes the users belong to
C18_Witness ==
    /\ \E r \in luxon_user_role : r.user_id = u1 /\ r.domain = NULL /\ r.tenant_id = NULL
    /\ \E r \in luxon_user_role : r.user_id = u1 /\ r.domain = d_x /\ r.tenant_id = NULL
    /\ \E r \in luxon_user_role : r.user_id = u2 /\ r.domain = NULL /\ r.tenant_id = t1
    /\ last.op = "POST"
    /\ last.exc = "AccessDenied: does not exist"

====
